---- MODULE Spec2Model ----
(***************************************************************************)
(* Model of wavehax/modules/resblock.py: the ConvNeXtBlock2d and           *)
(* ComplexConvNeXtBlock2d residual blocks.                                 *)
(*                                                                         *)
(* A tensor is a record [shape, val].  shape is the full shape tuple.      *)
(* val holds the numbers at one spatial position, as a function from index *)
(* tuples without the two spatial axes (<<b, c>>, or <<s, b, c>> for the   *)
(* stacked tensor) to integers: every stage after the nonlinearity acts    *)
(* pointwise over height and width.  The stages before pwconv2 (dwconv,    *)
(* norm, pwconv1, nonlinear) are real-valued functions of the input; their *)
(* shapes are computed, their values are any tensor of that shape, drawn   *)
(* as the argument h of Forward.  A drop probability is counted in halves  *)
(* (0, 1, 2 stand for 0.0, 0.5, 1.0), so that 1 / keep_prob is an integer. *)
(***************************************************************************)
EXTENDS Integers, Sequences, FiniteSets, TLC

VARIABLES block, ctor, call, inp, prev, lastOp

vars == <<block, ctor, call, inp, prev, lastOp>>

(* ------------------------------ bounds -------------------------------- *)
MaxChannels == 2
MaxMult == 2
MaxKernel == 3
MaxBatch == 2
MaxSize == 2
MaxVal == 1
MaxGamma == 2
MaxTracked == 1

(* ------------------------------ helpers ------------------------------- *)
ShapeError == <<>>

NoBlock == [cls |-> "none"]

NoCall == [result |-> "none"]

Idx(b, c) == (1 .. b) \X (1 .. c)

RECURSIVE SumTo(_, _)
SumTo(f, n) == IF n = 0 THEN 0 ELSE f[n] + SumTo(f, n - 1)

(* Python truth value of the use_layer_norm argument, given as a literal. *)
Truthy(v) == v \notin {"False", "None", "0", "''"}

(* ---------------------------- construction ---------------------------- *)
(* kernel_size is <<k>> for an int k and <<k0, k1>> for a tuple.           *)
NormalizeKernel(kernel_size) ==
    IF Len(kernel_size) = 1 THEN <<kernel_size[1], kernel_size[1]>> ELSE kernel_size

KernelOkFirstOnly(ks) == ks[1] % 2 = 1 /\ ks[1] % 2 = 1

KernelOk(ks) == ks[1] % 2 = 1 /\ ks[2] % 2 = 1

PaddingNone(ks) == <<0, 0>>

Padding(ks) == <<ks[1] \div 2, ks[2] \div 2>>

SelectNormIsTrue(cls, use_layer_norm) ==
    IF use_layer_norm = "True"
    THEN (IF cls = "complex" THEN "ComplexLayerNorm2d" ELSE "LayerNorm2d")
    ELSE (IF cls = "complex" THEN "ComplexBatchNorm2d" ELSE "BatchNorm2d")

SelectNorm(cls, use_layer_norm) ==
    IF Truthy(use_layer_norm)
    THEN (IF cls = "complex" THEN "ComplexLayerNorm2d" ELSE "LayerNorm2d")
    ELSE (IF cls = "complex" THEN "ComplexBatchNorm2d" ELSE "BatchNorm2d")

(* layer_scale_init_value is <<>> for None and <<v>> for a number v.       *)
InitGamma(channels, layer_scale_init_value) ==
    IF layer_scale_init_value = <<>> THEN <<>>
    ELSE [c \in 1 .. channels |-> layer_scale_init_value[1] * 1]

(* The parameters of pwconv2 after initialisation: weight[c][k], bias[c]. *)
(* kind names the drawn values; "eye" routes hidden channel k to output    *)
(* channel ((k - 1) mod out) + 1.                                          *)
WeightOf(kind, out_ch, in_ch) ==
    [c \in 1 .. out_ch |-> [k \in 1 .. in_ch |->
        IF kind = "zeros" THEN 0
        ELSE IF kind = "ones" THEN 1
        ELSE IF (k - 1) % out_ch = c - 1 THEN 1 ELSE 0]]

BiasOf(kind, out_ch) == [c \in 1 .. out_ch |-> IF kind = "zeros" THEN 0 ELSE 1]

(* a is the record of the constructor's arguments, with a.cls the class    *)
(* and a.init the drawn initial values of pwconv2's parameters.            *)
NewBlock(a) ==
    LET ks == NormalizeKernel(a.kernel_size) IN
    [cls |-> a.cls,
     channels |-> a.channels,
     mult_channels |-> a.mult_channels,
     kernel_size |-> ks,
     padding |-> Padding(ks),
     norm |-> SelectNorm(a.cls, a.use_layer_norm),
     w2 |-> [re |-> WeightOf(a.init.wre, a.channels, a.channels * a.mult_channels),
             im |-> WeightOf(a.init.wim, a.channels, a.channels * a.mult_channels)],
     b2 |-> [re |-> BiasOf(a.init.bre, a.channels),
             im |-> BiasOf(a.init.bim, a.channels)],
     gamma |-> InitGamma(a.channels, a.layer_scale_init_value),
     drop_prob |-> a.drop_prob,
     training |-> TRUE,
     num_batches_tracked |-> 0]

Construct(a) ==
    /\ ctor.result = "none"
    /\ IF KernelOk(NormalizeKernel(a.kernel_size))
       THEN /\ block' = NewBlock(a)
            /\ ctor' = [result |-> "ok", cls |-> a.cls, kernel_size |-> a.kernel_size,
                        use_layer_norm |-> a.use_layer_norm]
       ELSE /\ block' = NoBlock
            /\ ctor' = [result |-> "AssertionError", cls |-> a.cls,
                        kernel_size |-> a.kernel_size,
                        use_layer_norm |-> a.use_layer_norm]
    /\ lastOp' = "construct"
    /\ UNCHANGED <<call, inp, prev>>

(* ------------------------------ shapes -------------------------------- *)
(* Output shape of a stride-1 Conv2d on a (batch, channels, height, width) *)
(* input; reflect padding needs padding < input size in each axis.         *)
Conv2dShape(s, in_ch, out_ch, ks, pad, reflect) ==
    IF Len(s) # 4 THEN ShapeError
    ELSE IF s[2] # in_ch THEN ShapeError
    ELSE IF reflect /\ (pad[1] >= s[3] \/ pad[2] >= s[4]) THEN ShapeError
    ELSE LET h == s[3] + 2 * pad[1] - ks[1] + 1
             w == s[4] + 2 * pad[2] - ks[2] + 1
         IN IF h < 1 \/ w < 1 THEN ShapeError ELSE <<s[1], out_ch, h, w>>

(* Broadcast of two shapes, aligned at the last axis.                      *)
BroadcastShape(s, t) ==
    IF s = ShapeError \/ t = ShapeError THEN ShapeError
    ELSE LET n == IF Len(s) > Len(t) THEN Len(s) ELSE Len(t)
             at(u, i) == IF i > n - Len(u) THEN u[i - (n - Len(u))] ELSE 1
         IN IF \A i \in 1 .. n : at(s, i) = at(t, i) \/ at(s, i) = 1 \/ at(t, i) = 1
            THEN [i \in 1 .. n |-> IF at(s, i) = 1 THEN at(t, i) ELSE at(s, i)]
            ELSE ShapeError

(* Shape of the branch after pwconv2, from the shape of one input tensor:  *)
(* dwconv, norm, pwconv1, nonlinear, pwconv2.                              *)
BranchShape(b, s) ==
    LET s1 == Conv2dShape(s, b.channels, b.channels, b.kernel_size, b.padding, TRUE)
        s2 == s1
        s3 == IF s2 = ShapeError THEN ShapeError
              ELSE Conv2dShape(s2, b.channels, b.channels * b.mult_channels,
                               <<1, 1>>, <<0, 0>>, FALSE)
        s4 == s3
    IN IF s4 = ShapeError THEN ShapeError
       ELSE Conv2dShape(s4, b.channels * b.mult_channels, b.channels,
                        <<1, 1>>, <<0, 0>>, FALSE)

GammaShape(b) == <<1, b.channels, 1, 1>>

(* Shape of ConvNeXtBlock2d.forward's result. *)
RealOutShape(b, s) ==
    LET s5 == BranchShape(b, s)
        s6 == IF b.gamma # <<>> THEN BroadcastShape(GammaShape(b), s5) ELSE s5
    IN BroadcastShape(s, s6)

(* Shapes of ComplexConvNeXtBlock2d.forward's results: stack, scale, gate, *)
(* then z[0] and z[1] plus the residuals.                                  *)
ComplexOutShape(b, sr, si) ==
    LET s5 == IF sr = si THEN BranchShape(b, sr) ELSE ShapeError
        z0 == IF s5 = ShapeError THEN ShapeError ELSE <<2>> \o s5
        z1 == IF b.gamma # <<>> THEN BroadcastShape(GammaShape(b), z0) ELSE z0
    IN IF z1 = ShapeError THEN <<ShapeError, ShapeError>>
       ELSE <<BroadcastShape(Tail(z1), sr), BroadcastShape(Tail(z1), si)>>

(* ------------------------------ values -------------------------------- *)
(* 1x1 convolution with bias at one spatial position.                      *)
Conv1x1(w, bias, h, batch, out_ch, in_ch) ==
    [i \in Idx(batch, out_ch) |->
        SumTo([k \in 1 .. in_ch |-> w[i[2]][k] * h[<<i[1], k>>]], in_ch) + bias[i[2]]]

(* pwconv2 of the real block. *)
PwConv2(b, h, batch) ==
    <<Conv1x1(b.w2.re, b.b2.re, h[1], batch, b.channels, b.channels * b.mult_channels)>>

(* pwconv2 of the complex block: complex weight and bias. *)
ComplexPwConv2(b, h, batch) ==
    LET zero == [c \in 1 .. b.channels |-> 0]
        n == b.channels * b.mult_channels
        rr == Conv1x1(b.w2.re, b.b2.re, h[1], batch, b.channels, n)
        ii == Conv1x1(b.w2.im, zero, h[2], batch, b.channels, n)
        ri == Conv1x1(b.w2.re, b.b2.im, h[2], batch, b.channels, n)
        ir == Conv1x1(b.w2.im, zero, h[1], batch, b.channels, n)
    IN <<[i \in DOMAIN rr |-> rr[i] - ii[i]], [i \in DOMAIN ri |-> ri[i] + ir[i]]>>

StackSwapped(real, imag) ==
    [i \in {<<s>> \o j : s \in 1 .. 2, j \in DOMAIN real} |->
        IF i[1] = 1 THEN imag[Tail(i)] ELSE real[Tail(i)]]

(* torch.stack([real, imag], dim=0) *)
Stack(real, imag) ==
    [i \in {<<s>> \o j : s \in 1 .. 2, j \in DOMAIN real} |->
        IF i[1] = 1 THEN real[Tail(i)] ELSE imag[Tail(i)]]

(* z[n] *)
Select(z, n) == [j \in {Tail(i) : i \in DOMAIN z} |-> z[<<n>> \o j]]

LayerScaleAdds(gamma, z) ==
    IF gamma # <<>> THEN [i \in DOMAIN z |-> gamma[i[Len(i)]] + z[i]] ELSE z

LayerScaleSkipped(gamma, z) == z

(* self.gamma * x: gamma has shape (1, channels, 1, 1), so it is indexed by *)
(* the channel axis, the last one of an index without the spatial axes.    *)
LayerScale(gamma, z) ==
    IF gamma # <<>> THEN [i \in DOMAIN z |-> gamma[i[Len(i)]] * z[i]] ELSE z

(* The keep/drop draws DropPath can make for a tensor with n leading       *)
(* indices: none when the gate is inactive (written as all kept).          *)
KeepDraws(n, drop_prob, training) ==
    IF drop_prob = 0 \/ ~training THEN {[i \in 1 .. n |-> TRUE]}
    ELSE IF drop_prob = 2 THEN {[i \in 1 .. n |-> FALSE]}
    ELSE [1 .. n -> BOOLEAN]

(* DropPath.forward: per index of the leading axis, zero or rescale by     *)
(* 1 / keep_prob; the identity in evaluation mode or with drop_prob 0.     *)
DropPath(z, drop_prob, training, keep) ==
    IF drop_prob = 0 \/ ~training THEN z
    ELSE [i \in DOMAIN z |->
            IF keep[i[1]] THEN z[i] * (2 \div (2 - drop_prob)) ELSE 0]

AddInPlace(a, y) ==
    [out |-> [i \in DOMAIN a |-> a[i] + y[i]], arg |-> [i \in DOMAIN a |-> a[i] + y[i]]]

(* a + y, out of place: out is the new tensor, arg the content of a after. *)
Add(a, y) == [out |-> [i \in DOMAIN a |-> a[i] + y[i]], arg |-> a]

RealGateSkipped(b, x, keep) == LayerScale(b.gamma, x)

(* self.drop_path(self.gamma * x) of the real block *)
RealGate(b, x, keep) == DropPath(LayerScale(b.gamma, x), b.drop_prob, b.training, keep)

(* stack, scale and gate of the complex block *)
ComplexGate(b, real, imag, keep) ==
    DropPath(LayerScale(b.gamma, Stack(real, imag)), b.drop_prob, b.training, keep)

ResidualDropped(residual, y) == [out |-> y, arg |-> residual]

(* residual + branch *)
Residual(residual, y) == Add(residual, y)

(* ------------------------------ forward ------------------------------- *)
IsBatchNorm(b) == b.norm \in {"BatchNorm2d", "ComplexBatchNorm2d"}

(* The normalization's own state: batch normalization counts the batches   *)
(* it has seen in training mode; layer normalization keeps none.           *)
NormStep(b) ==
    IF b.training /\ IsBatchNorm(b)
    THEN [b EXCEPT !.num_batches_tracked = @ + 1]
    ELSE b

(* Values a tensor of `batch` samples and `ch` channels takes, by pattern. *)
ValOf(pat, lvl, batch, ch) ==
    [i \in Idx(batch, ch) |-> IF pat = "batch" THEN lvl * i[1] ELSE lvl * i[2]]

OtherPat(pat) == IF pat = "batch" THEN "chan" ELSE "batch"

(* The output of self.nonlinear: any values; h = [pat, lvl] names them.    *)
HiddenOf(b, h, batch) ==
    IF b.cls = "complex"
    THEN <<ValOf(h.pat, h.lvl, batch, b.channels * b.mult_channels),
           ValOf(OtherPat(h.pat), 0 - h.lvl, batch, b.channels * b.mult_channels)>>
    ELSE <<ValOf(h.pat, h.lvl, batch, b.channels * b.mult_channels)>>

(* ConvNeXtBlock2d.forward from pwconv2 on, at one spatial position.       *)
RealForward(b, x, hid, keep) ==
    LET proj == PwConv2(b, hid, x[1].shape[1])
        r == Residual(x[1].val, RealGate(b, proj[1], keep))
        ones == [i \in DOMAIN proj[1] |-> 1]
    IN [proj |-> proj, out |-> <<r.out>>, arg |-> <<r.arg>>,
        factor |-> DropPath(ones, b.drop_prob, b.training, keep)]

(* ComplexConvNeXtBlock2d.forward from pwconv2 on. *)
ComplexForward(b, x, hid, keep) ==
    LET proj == ComplexPwConv2(b, hid, x[1].shape[1])
        z == ComplexGate(b, proj[1], proj[2], keep)
        re == Residual(x[1].val, Select(z, 1))
        im == Residual(x[2].val, Select(z, 2))
        ones == [i \in DOMAIN Stack(proj[1], proj[2]) |-> 1]
    IN [proj |-> proj, out |-> <<re.out, im.out>>, arg |-> <<re.arg, im.arg>>,
        factor |-> DropPath(ones, b.drop_prob, b.training, keep)]

OutShapes(b, x) ==
    IF b.cls = "complex" THEN ComplexOutShape(b, x[1].shape, x[2].shape)
    ELSE <<RealOutShape(b, x[1].shape)>>

(* Size of the axis DropPath decides over: the leading axis of its input,  *)
(* the batch axis in the real block and the stack axis in the complex one. *)
LeadSize(b, x) == IF b.cls = "complex" THEN 2 ELSE x[1].shape[1]

NormRan(b, x) ==
    /\ BranchShape(b, x[1].shape) # ShapeError
    /\ b.cls = "complex" => x[1].shape = x[2].shape

Forward(x, h) ==
    /\ ctor.result = "ok"
    /\ Len(x) = (IF block.cls = "complex" THEN 2 ELSE 1)
    /\ block.training /\ IsBatchNorm(block) => block.num_batches_tracked < MaxTracked
    /\ block' = IF NormRan(block, x) THEN NormStep(block) ELSE block
    /\ \E shapes \in {OutShapes(block, x)} :
        IF \E n \in DOMAIN shapes : shapes[n] = ShapeError
        THEN /\ call' = [result |-> "RuntimeError", args |-> x]
             /\ inp' = x
        ELSE \E keep \in KeepDraws(LeadSize(block, x), block.drop_prob, block.training) :
             \E hid \in {HiddenOf(block, h, x[1].shape[1])} :
             \E f \in {IF block.cls = "complex" THEN ComplexForward(block, x, hid, keep)
                        ELSE RealForward(block, x, hid, keep)} :
                /\ call' = [result |-> "ok", args |-> x, training |-> block.training,
                            gamma |-> block.gamma, proj |-> f.proj, factor |-> f.factor,
                            out |-> [n \in DOMAIN x |->
                                        [shape |-> shapes[n], val |-> f.out[n]]]]
                /\ inp' = [n \in DOMAIN x |-> [shape |-> x[n].shape, val |-> f.arg[n]]]
    /\ lastOp' = "forward"
    /\ UNCHANGED <<ctor, prev>>

(* nn.Module.train(mode) / nn.Module.eval() *)
SetTraining(mode) ==
    /\ ctor.result = "ok"
    /\ block.training # mode
    /\ block' = [block EXCEPT !.training = mode]
    /\ lastOp' = "mode"
    /\ UNCHANGED <<ctor, call, inp, prev>>

(* The optimizer's update of the layer-scale parameter: channel c doubled. *)
OptimizerStep(c) ==
    /\ ctor.result = "ok"
    /\ block.gamma # <<>>
    /\ c \in DOMAIN block.gamma
    /\ 2 * block.gamma[c] <= MaxGamma
    /\ block' = [block EXCEPT !.gamma[c] = 2 * @]
    /\ lastOp' = "optimizer"
    /\ UNCHANGED <<ctor, call, inp, prev>>

(* The caller keeps the result of the last call to compare the next with.  *)
Snapshot ==
    /\ call.result = "ok"
    /\ prev # call
    /\ prev' = call
    /\ lastOp' = "snapshot"
    /\ UNCHANGED <<block, ctor, call, inp>>

Init ==
    /\ block = NoBlock
    /\ ctor = [result |-> "none"]
    /\ call = NoCall
    /\ inp = <<>>
    /\ prev = NoCall
    /\ lastOp = "init"

(* ------------------------------ inputs -------------------------------- *)
Classes == {"real", "complex"}

DropProbs == {0, 1, 2}

Selectors == {"True", "False", "None", "0", "1", "''", "'batch'", "'layer'"}

KernelArgs ==
    {<<k>> : k \in 1 .. MaxKernel} \cup ((1 .. MaxKernel) \X (1 .. MaxKernel))

Inits ==
    {[wre |-> "zeros", wim |-> "zeros", bre |-> "zeros", bim |-> "zeros"],
     [wre |-> "zeros", wim |-> "zeros", bre |-> "ones", bim |-> "ones"],
     [wre |-> "eye", wim |-> "ones", bre |-> "zeros", bim |-> "zeros"],
     [wre |-> "ones", wim |-> "eye", bre |-> "ones", bim |-> "zeros"]}

Pats == {"batch", "chan"}

Tensor(shape, pat, lvl) == [shape |-> shape, val |-> ValOf(pat, lvl, shape[1], shape[2])]

(* One tensor for the real block, a (real, imag) pair for the complex one. *)
InputsOf(shapes, pats, lvls) ==
    {<<Tensor(s, p, l)>> : s \in shapes, p \in pats, l \in lvls}
    \cup {<<Tensor(s, p, l), Tensor(s, OtherPat(p), l)>> :
             s \in shapes, p \in pats, l \in lvls}

Hiddens(lvls) == [pat : Pats, lvl : lvls]

(* Specification of the gate and the residual: values vary, kernel fixed.  *)
GateArgs ==
    [cls : Classes, channels : {MaxChannels}, mult_channels : {1, MaxMult},
     kernel_size : {<<3>>}, drop_prob : DropProbs, use_layer_norm : {"True", "False"},
     layer_scale_init_value : {<<>>, <<2>>}, init : Inits]

GateInputs == InputsOf({<<MaxBatch, MaxChannels, MaxSize, MaxSize>>}, Pats, {MaxVal})

GateConstruct == \E a \in GateArgs : Construct(a)

GateForward == \E x \in GateInputs, h \in Hiddens({MaxVal}) : Forward(x, h)

Train == SetTraining(TRUE)

Eval == SetTraining(FALSE)

Optimizer == \E c \in 1 .. MaxChannels : OptimizerStep(c)

Next == GateConstruct \/ GateForward \/ Train \/ Eval

Spec == Init /\ [][Next]_vars

(* Specification of construction: every kernel size and selector.         *)
CtorArgs ==
    [cls : Classes, channels : {MaxChannels}, mult_channels : {1},
     kernel_size : KernelArgs, drop_prob : {0}, use_layer_norm : Selectors,
     layer_scale_init_value : {<<>>},
     init : {[wre |-> "eye", wim |-> "ones", bre |-> "zeros", bim |-> "zeros"]}]

CtorInputs == InputsOf({<<1, MaxChannels, MaxSize, MaxSize>>}, {"chan"}, {1})

CtorConstruct == \E a \in CtorArgs : Construct(a)

CtorForward == \E x \in CtorInputs : Forward(x, [pat |-> "chan", lvl |-> 1])

NextCtor == CtorConstruct \/ CtorForward

SpecCtor == Init /\ [][NextCtor]_vars

(* Specification of the shapes: every kernel size and input shape.         *)
ShapeArgs ==
    [cls : Classes, channels : {1, MaxChannels}, mult_channels : {1, MaxMult},
     kernel_size : KernelArgs, drop_prob : {0}, use_layer_norm : {"True", "False"},
     layer_scale_init_value : {<<>>, <<1>>},
     init : {[wre |-> "eye", wim |-> "ones", bre |-> "zeros", bim |-> "zeros"]}]

ShapeInputs ==
    InputsOf({MaxBatch} \X (1 .. MaxChannels) \X (1 .. MaxSize) \X (1 .. MaxSize),
             {"chan"}, {1})

ShapeConstruct == \E a \in ShapeArgs : Construct(a)

ShapeForward == \E x \in ShapeInputs : Forward(x, [pat |-> "chan", lvl |-> 1])

NextShape == ShapeConstruct \/ ShapeForward

SpecShape == Init /\ [][NextShape]_vars

(* Specification of the layer scale: the optimizer changes gamma between   *)
(* calls and the caller compares two results.                              *)
ScaleArgs ==
    [cls : Classes, channels : {MaxChannels}, mult_channels : {1},
     kernel_size : {<<1>>}, drop_prob : {0, 1}, use_layer_norm : {"True"},
     layer_scale_init_value : {<<>>, <<1>>},
     init : {[wre |-> "ones", wim |-> "eye", bre |-> "ones", bim |-> "zeros"]}]

ScaleInputs == InputsOf({<<MaxBatch, MaxChannels, MaxSize, MaxSize>>}, {"batch"}, {MaxVal})

ScaleConstruct == \E a \in ScaleArgs : Construct(a)

ScaleForward == \E x \in ScaleInputs, h \in Hiddens({MaxVal}) : Forward(x, h)

NextScale == ScaleConstruct \/ ScaleForward \/ Optimizer \/ Snapshot

SpecScale == Init /\ [][NextScale]_vars

(* ------------------- properties of the gate (Spec) --------------------- *)
CallOk == call.result = "ok"

(* The tensors of the last call: 1, or 1 (real) and 2 (imag). *)
Parts == DOMAIN call.args

Cells == Idx(call.args[1].shape[1], block.channels)

(* The projection output times the per-channel scale, when there is one.   *)
Scaled(n, i) ==
    IF call.gamma = <<>> THEN call.proj[n][i] ELSE call.gamma[i[2]] * call.proj[n][i]

OutIsInput == \A n \in Parts : \A i \in Cells : call.out[n].val[i] = call.args[n].val[i]

OutIsInputPlusBranch ==
    \A n \in Parts : \A i \in Cells :
        call.out[n].val[i] = call.args[n].val[i] + Scaled(n, i)

BranchNonZero == \E n \in Parts : \E i \in Cells : Scaled(n, i) # 0

(* C3: in a forward call of the complex block every sample's real branch   *)
(* and imaginary branch get the same keep/drop decision and factor.        *)
C3_SameDecision ==
    (CallOk /\ block.cls = "complex") =>
        \A i \in Cells : call.factor[<<1>> \o i] = call.factor[<<2>> \o i]

(* C4: with drop probability 1 in training mode a forward call returns     *)
(* exactly the residual input for every sample.                            *)
C4_DropAll == (CallOk /\ call.training /\ block.drop_prob = 2) => OutIsInput

C4_Witness ==
    /\ CallOk /\ call.training /\ block.drop_prob = 2
    /\ block.cls = "complex" /\ BranchNonZero /\ OutIsInput

(* C5: a forward call in evaluation mode returns residual + scaled branch  *)
(* for every sample, whatever the drop probability.                        *)
C5_EvalNeverDrops == (CallOk /\ ~call.training) => OutIsInputPlusBranch

C5_Witness ==
    /\ CallOk /\ ~call.training /\ block.drop_prob = 2
    /\ block.gamma # <<>> /\ BranchNonZero /\ OutIsInputPlusBranch

(* C6: with drop probability 0 a forward call returns residual + the full  *)
(* scaled branch for every sample in training and in evaluation mode.      *)
C6_NoDropIdentity == (CallOk /\ block.drop_prob = 0) => OutIsInputPlusBranch

C6_Witness ==
    /\ CallOk /\ call.training /\ block.drop_prob = 0
    /\ block.cls = "complex" /\ BranchNonZero /\ ~OutIsInput

ZeroWeights ==
    /\ \A c \in DOMAIN block.w2.re : \A k \in DOMAIN block.w2.re[c] :
           block.w2.re[c][k] = 0
    /\ block.cls = "complex" =>
           \A c \in DOMAIN block.w2.im : \A k \in DOMAIN block.w2.im[c] :
               block.w2.im[c][k] = 0

ZeroBias ==
    /\ \A c \in DOMAIN block.b2.re : block.b2.re[c] = 0
    /\ block.cls = "complex" => \A c \in DOMAIN block.b2.im : block.b2.im[c] = 0

(* C8 as stated: with multiplier 1 and the weights of pwconv2 zero the     *)
(* output equals the input.                                                *)
C8_ZeroWeightsPassthrough ==
    (CallOk /\ block.mult_channels = 1 /\ ZeroWeights) => OutIsInput

(* C8 amended: with multiplier 1 and both the weights and the bias of      *)
(* pwconv2 zero the output equals the input, in both modes.                *)
C8_ZeroProjectionPassthrough ==
    (CallOk /\ block.mult_channels = 1 /\ ZeroWeights /\ ZeroBias) => OutIsInput

C8_Witness ==
    /\ CallOk /\ block.mult_channels = 1 /\ ZeroWeights /\ ZeroBias
    /\ block.gamma # <<>> /\ call.training /\ block.drop_prob = 1
    /\ \E i \in DOMAIN call.factor : call.factor[i] # 0
    /\ OutIsInput

Config(b) ==
    [cls |-> b.cls, channels |-> b.channels, mult_channels |-> b.mult_channels,
     kernel_size |-> b.kernel_size, padding |-> b.padding, norm |-> b.norm,
     drop_prob |-> b.drop_prob, gamma |-> b.gamma, w2 |-> b.w2, b2 |-> b.b2,
     training |-> b.training]

(* C10: a forward call leaves the caller's input tensors, the block's      *)
(* configuration and its parameters unchanged; only the normalization's    *)
(* statistics may change, and only in a training-mode call.                *)
C10_ForwardFrame ==
    [][lastOp' = "forward" =>
          /\ inp' = call'.args
          /\ Config(block') = Config(block)
          /\ block'.num_batches_tracked # block.num_batches_tracked => block.training]_vars

C10_Witness ==
    /\ lastOp = "forward" /\ CallOk /\ ~OutIsInput
    /\ block.num_batches_tracked > 0 /\ block.gamma # <<>>
    /\ inp = call.args

(* -------- properties of construction and shapes (SpecCtor, SpecShape) -- *)
Constructed == ctor.result # "none"

(* The two kernel dimensions of the constructor's argument. *)
KernelH == ctor.kernel_size[1]

KernelW == ctor.kernel_size[Len(ctor.kernel_size)]

BothOdd == KernelH % 2 = 1 /\ KernelW % 2 = 1

Called == call.result # "none"

SameShape == CallOk /\ \A n \in Parts : call.out[n].shape = call.args[n].shape

ChannelsMatch == \A n \in Parts : call.args[n].shape[2] = block.channels

(* Reflect padding of kernel_size // 2 fits inside the input. *)
PaddingFits ==
    \A n \in Parts :
        /\ call.args[n].shape[3] > KernelH \div 2
        /\ call.args[n].shape[4] > KernelW \div 2

(* C1 as stated: forward returns tensors of the input's shape for every    *)
(* (batch, channels, height, width) input of a valid configuration.        *)
C1_AlwaysSameShape == (Called /\ ChannelsMatch) => SameShape

(* C1 amended: forward returns tensors of the input's shape when height    *)
(* and width exceed kernel_size // 2 in their axis, and fails otherwise;   *)
(* whatever it returns has the input's shape.                              *)
C1_SameShape ==
    /\ (Called /\ ChannelsMatch) =>
           IF PaddingFits THEN SameShape ELSE call.result = "RuntimeError"
    /\ CallOk => SameShape

C1_Witness ==
    /\ SameShape /\ block.cls = "complex" /\ block.mult_channels = 2
    /\ block.kernel_size = <<3, 1>> /\ block.gamma # <<>>
    /\ call.args[1].shape = <<2, 2, 2, 1>>

(* C2: construction fails with the assertion error, and yields no block,   *)
(* exactly when a kernel dimension is even; it succeeds when both are odd. *)
C2_EvenKernelRejected ==
    Constructed =>
        /\ BothOdd <=> ctor.result = "ok"
        /\ ~BothOdd <=> (ctor.result = "AssertionError" /\ block = NoBlock)
        /\ ctor.result = "ok" => block.kernel_size = <<KernelH, KernelW>>

C2_Witness ==
    /\ ctor.result = "AssertionError" /\ block = NoBlock
    /\ ctor.kernel_size = <<3, 2>>

(* C9 as stated: a selector that is neither of the two valid choices makes *)
(* construction fail.                                                      *)
C9_InvalidNormRejected ==
    (Constructed /\ ctor.use_layer_norm \notin {"True", "False"}) => ctor.result # "ok"

IsLayerNorm == block.norm \in {"LayerNorm2d", "ComplexLayerNorm2d"}

(* C9 amended: no selector makes construction fail; a selector that is     *)
(* true in a condition selects layer normalization, any other batch        *)
(* normalization.                                                          *)
C9_NormByTruthValue ==
    /\ (Constructed /\ BothOdd) => ctor.result = "ok"
    /\ ctor.result = "ok" =>
           /\ ctor.use_layer_norm \in {"True", "1", "'batch'", "'layer'"} => IsLayerNorm
           /\ ctor.use_layer_norm \in {"False", "None", "0", "''"} => IsBatchNorm(block)

C9_Witness ==
    /\ ctor.result = "ok" /\ ctor.use_layer_norm = "'batch'" /\ IsLayerNorm

(* ------------- properties of the layer scale (SpecScale) --------------- *)
FactorAt(c, n, i) == IF Len(c.args) = 2 THEN c.factor[<<n>> \o i] ELSE c.factor[i]

Delta(c, n, i) == c.out[n].val[i] - c.args[n].val[i]

SameCall ==
    /\ prev.result = "ok" /\ CallOk
    /\ prev.args = call.args /\ prev.proj = call.proj /\ prev.factor = call.factor
    /\ prev.gamma # <<>> /\ call.gamma # <<>>

(* C7: the branch added to the residual is the per-channel scale times the *)
(* projection output (the projection output itself without a scale), for   *)
(* the real and the imaginary part alike, so that between two calls that   *)
(* differ only in a doubled scale of a channel, output - residual doubles  *)
(* on that channel.                                                        *)
C7_ScaleMultiplies ==
    /\ CallOk => \A n \in Parts : \A i \in Cells :
           Delta(call, n, i) =
               FactorAt(call, n, i) *
                   (IF block.gamma = <<>> THEN call.proj[n][i]
                    ELSE call.gamma[i[2]] * call.proj[n][i])
    /\ SameCall => \A n \in Parts : \A i \in Cells :
           call.gamma[i[2]] = 2 * prev.gamma[i[2]] =>
               Delta(call, n, i) = 2 * Delta(prev, n, i)

C7_Witness ==
    /\ SameCall /\ block.cls = "complex"
    /\ call.gamma[1] = 2 * prev.gamma[1] /\ call.gamma[2] = prev.gamma[2]
    /\ \E i \in Cells : i[2] = 1 /\ Delta(prev, 2, i) # 0
                        /\ Delta(call, 2, i) = 2 * Delta(prev, 2, i)

====
